---- MODULE Spec2Model ----
(***************************************************************************)
(* Overlap-aware network import of prop_infoblox_import_with_overlap.py:   *)
(* the CIDR relation check_network_overlap, the hierarchy analysis         *)
(* analyze_network_overlaps and the two-phase executor                     *)
(* PropertyManager.create_networks_with_overlap_handling.                  *)
(*                                                                         *)
(* A CIDR string "a.b.c.d/n" is the record [addr |-> the address as        *)
(* written, len |-> n]; addresses are AddrBits wide.  Two strings are the  *)
(* same string iff the records are equal; they may still parse to the same *)
(* network (host bits set on input).                                       *)
(*                                                                         *)
(* Spec is one run of the executor on a batch of at most MaxBatch records. *)
(* SpecRelate is one call of check_network_overlap on any two CIDR         *)
(* strings, host bits included or malformed.  SpecMalformed is the         *)
(* executor on a batch with malformed strings, SpecScenario the executor   *)
(* on the end-to-end scenario, SpecClassify the classification of a        *)
(* gateway error message.  SpecEa is the gateway client's cache of EA      *)
(* definitions (aws_infoblox_vpc_manager_fixed.py) and SpecWeb the import  *)
(* jobs of the web application (web_app_app.py).                           *)
(***************************************************************************)
EXTENDS Integers, Sequences, FiniteSets, TLC

AddrBits == 2
MaxBatch == 3
MaxAddr == 2
MaxRequired == 2
MaxEaCalls == 4
MaxRequests == 3
MaxTime == 1

VARIABLES missing_networks, dry_run, pc, idx, overlap_analysis,
          container_order, created_containers, results, calls,
          cidr1, cidr2, overlap_type,
          error_lower, error_category,
          server_eas, ea_cache, created_eas, ensure_log, ea_calls,
          jobs, tasks, now

vars == <<missing_networks, dry_run, pc, idx, overlap_analysis,
          container_order, created_containers, results, calls,
          cidr1, cidr2, overlap_type,
          error_lower, error_category,
          server_eas, ea_cache, created_eas, ensure_log, ea_calls,
          jobs, tasks, now>>

execVars == <<missing_networks, dry_run, pc, idx, overlap_analysis,
              container_order, created_containers, results, calls>>

relVars == <<cidr1, cidr2, overlap_type>>

clsVars == <<error_lower, error_category>>

eaVars == <<server_eas, ea_cache, created_eas, ensure_log, ea_calls>>

webVars == <<jobs, tasks, now>>

----------------------------------------------------------------------------
(* CIDR strings and ipaddress.ip_network(..., strict=False)                *)

RECURSIVE Pow2(_)
Pow2(n) == IF n = 0 THEN 1 ELSE 2 * Pow2(n - 1)

CidrStrings == [addr : 0 .. (Pow2(AddrBits) - 1), len : 0 .. AddrBits]

NoCidr == [addr |-> -1, len |-> -1]

\* The CIDR strings a batch is drawn from: network addresses (no host bits
\* set) up to MaxAddr.
BatchCidrs ==
    {c \in CidrStrings :
        /\ c.addr <= MaxAddr
        /\ c.addr % Pow2(AddrBits - c.len) = 0}

\* Strings that are not "address/prefix" with both parts in range carry a
\* form field: "no_slash" is a bare address "a.b.c.d", "non_numeric_prefix"
\* is "a.b.c.d/xx", "prefix_out_of_range" has len = AddrBits + 1, and
\* "bad_address" has an address beyond the address space.
HasForm(cidr) == "form" \in DOMAIN cidr

MalformedStrings ==
    [addr : 0 .. (Pow2(AddrBits) - 1), form : {"no_slash", "non_numeric_prefix"}]
    \cup [addr : 0 .. (Pow2(AddrBits) - 1), len : {AddrBits + 1},
          form : {"prefix_out_of_range"}]
    \cup [addr : {Pow2(AddrBits)}, len : 0 .. AddrBits, form : {"bad_address"}]

\* int(cidr.split('/')[1]) raises: there is no second part, or it is no number.
PrefixRaises(cidr) ==
    HasForm(cidr) /\ cidr.form \in {"no_slash", "non_numeric_prefix"}

\* ipaddress.ip_network(cidr, strict=False) raises ValueError.  A bare
\* address does not: it is read as a network of one address.
ParseFails(cidr) ==
    HasForm(cidr) /\ cidr.form \in {"non_numeric_prefix", "prefix_out_of_range", "bad_address"}

\* ip_network with the host bits of the address kept: the block starts at the
\* address as written.
ip_network_KeepHostBits(cidr) ==
    LET len  == IF HasForm(cidr) /\ cidr.form = "no_slash" THEN AddrBits ELSE cidr.len
        size == Pow2(AddrBits - len)
    IN  [network_address   |-> cidr.addr,
         broadcast_address |-> cidr.addr + size - 1,
         prefixlen         |-> len]

\* ip_network(cidr, strict=False): the host bits of the address are cleared.
ip_network(cidr) ==
    LET len  == IF HasForm(cidr) /\ cidr.form = "no_slash" THEN AddrBits ELSE cidr.len
        size == Pow2(AddrBits - len)
    IN  [network_address   |-> cidr.addr - (cidr.addr % size),
         broadcast_address |-> cidr.addr - (cidr.addr % size) + size - 1,
         prefixlen         |-> len]

\* subnet_of comparing the network addresses only.
subnet_of_NetworkAddressOnly(a, b) ==
    b.network_address <= a.network_address

\* a.subnet_of(b): a's address range lies within b's (equal blocks included).
subnet_of(a, b) ==
    /\ b.network_address <= a.network_address
    /\ b.broadcast_address >= a.broadcast_address

\* a.supernet_of(b) is b.subnet_of(a).
supernet_of(a, b) == subnet_of(b, a)

\* a.overlaps(b): an end of one block lies inside the other block.
overlaps(a, b) ==
    \/ (b.network_address <= a.network_address /\ a.network_address <= b.broadcast_address)
    \/ (b.network_address <= a.broadcast_address /\ a.broadcast_address <= b.broadcast_address)
    \/ (a.network_address <= b.network_address /\ b.network_address <= a.broadcast_address)
    \/ (a.network_address <= b.broadcast_address /\ b.broadcast_address <= a.broadcast_address)

\* check_network_overlap with the ValueError of ip_network not caught.
check_network_overlap_Uncaught(c1, c2) ==
    IF ParseFails(c1) \/ ParseFails(c2) THEN "raised"
    ELSE
    LET net1 == ip_network(c1)
        net2 == ip_network(c2)
    IN  IF supernet_of(net1, net2) THEN "contains"
        ELSE IF subnet_of(net1, net2) THEN "contained"
        ELSE IF overlaps(net1, net2) THEN "overlap"
        ELSE "none"

\* The try block parses both strings; any exception is caught and answered
\* with 'error'.
check_network_overlap(c1, c2) ==
    IF ParseFails(c1) \/ ParseFails(c2) THEN "error"
    ELSE
    LET net1 == ip_network(c1)
        net2 == ip_network(c2)
    IN  IF supernet_of(net1, net2) THEN "contains"
        ELSE IF subnet_of(net1, net2) THEN "contained"
        ELSE IF overlaps(net1, net2) THEN "overlap"
        ELSE "none"

----------------------------------------------------------------------------
(* analyze_network_overlaps                                                *)

\* The records of seq whose prefix length is n, in their order in seq.
RECURSIVE WithPrefix(_, _)
WithPrefix(seq, n) ==
    IF seq = <<>> THEN <<>>
    ELSE IF Head(seq).cidr.len = n
         THEN <<Head(seq)>> \o WithPrefix(Tail(seq), n)
         ELSE WithPrefix(Tail(seq), n)

\* sorted(networks, key=prefix length): ascending, stable.  The key is the
\* number after the '/', whether or not it is a prefix length in range.
RECURSIVE SortFrom(_, _)
SortFrom(seq, n) ==
    IF n > AddrBits + 1 THEN <<>>
    ELSE WithPrefix(seq, n) \o SortFrom(seq, n + 1)

\* sorted(..., reverse=True): descending prefix length.
sorted_networks_Reversed(networks) ==
    LET asc == SortFrom(networks, 0)
    IN  [k \in 1 .. Len(asc) |-> asc[Len(asc) + 1 - k]]

sorted_networks(networks) == SortFrom(networks, 0)

EmptyAnalysis == [containers |-> {}, relationships |-> <<>>, overlaps |-> <<>>]

\* relationships.get(cidr, [])
RelGet(relationships, cidr) ==
    IF cidr \in DOMAIN relationships THEN relationships[cidr] ELSE <<>>

\* AnalyzePair with the list of a container replaced instead of extended.
AnalyzePair_Overwrite(result, net1, net2) ==
    LET t == check_network_overlap(net1.cidr, net2.cidr)
    IN  IF t = "contains"
        THEN [result EXCEPT
                !.containers = @ \cup {net1.cidr},
                !.relationships =
                    [c \in (DOMAIN @) \cup {net1.cidr} |->
                        IF c = net1.cidr THEN <<net2>> ELSE @[c]]]
        ELSE IF t = "overlap"
        THEN [result EXCEPT
                !.overlaps = Append(@, [network1 |-> net1, network2 |-> net2])]
        ELSE result

\* One iteration of the inner loop on the pair (net1, net2).
AnalyzePair(result, net1, net2) ==
    LET t == check_network_overlap(net1.cidr, net2.cidr)
    IN  IF t = "contains"
        THEN [result EXCEPT
                !.containers = @ \cup {net1.cidr},
                !.relationships =
                    [c \in (DOMAIN @) \cup {net1.cidr} |->
                        IF c = net1.cidr THEN Append(RelGet(@, c), net2)
                        ELSE @[c]]]
        ELSE IF t = "overlap"
        THEN [result EXCEPT
                !.overlaps = Append(@, [network1 |-> net1, network2 |-> net2])]
        ELSE result

\* The nested loops: i over the sorted list, j over the records after i.
RECURSIVE AnalyzeLoop(_, _, _, _)
AnalyzeLoop(sorted, i, j, result) ==
    IF i > Len(sorted) THEN result
    ELSE IF j > Len(sorted) THEN AnalyzeLoop(sorted, i + 1, i + 2, result)
    ELSE AnalyzeLoop(sorted, i, j + 1, AnalyzePair(result, sorted[i], sorted[j]))

\* The pairwise loop run on the list as given, without sorting it.
analyze_network_overlaps_Unsorted(networks) ==
    AnalyzeLoop(networks, 1, 2, EmptyAnalysis)

analyze_network_overlaps(networks) ==
    AnalyzeLoop(sorted_networks(networks), 1, 2, EmptyAnalysis)

----------------------------------------------------------------------------
(* The executor                                                            *)

\* Error messages of the gateway, as the set of keywords the lower-cased
\* message contains.
ErrorMessages == {{"overlap"}}

\* The category of a failed network creation.
Categorize(error_msg) ==
    IF "overlap" \in error_msg THEN "overlap"
    ELSE IF "permission" \in error_msg THEN "permission"
    ELSE "unknown"

\* All orders in which a set can be iterated.
Orders(S) ==
    {o \in [1 .. Cardinality(S) -> S] : \A c \in S : \E k \in DOMAIN o : o[k] = c}

\* The batches the input source supplies: site_id is the row of the record.
Batches ==
    UNION {{[k \in 1 .. n |-> [cidr |-> cs[k], site_id |-> k]] :
              cs \in [1 .. n -> BatchCidrs]} : n \in 0 .. MaxBatch}

RelIdle ==
    /\ cidr1 = NoCidr
    /\ cidr2 = NoCidr
    /\ overlap_type = "idle"

ClsIdle ==
    /\ error_lower = {}
    /\ error_category = "idle"

\* self._ea_cache = {}: the cache of a client that has fetched nothing.
EmptyCache == [k \in {} |-> {}]

EaIdle ==
    /\ server_eas = {}
    /\ ea_cache = EmptyCache
    /\ created_eas = {}
    /\ ensure_log = <<>>
    /\ ea_calls = 0

\* jobs: Dict[str, JobStatus] = {}
WebIdle ==
    /\ jobs = [k \in {} |-> {}]
    /\ tasks = <<>>
    /\ now = 0

Init ==
    /\ missing_networks \in Batches
    /\ dry_run \in BOOLEAN
    /\ pc = "analyze"
    /\ idx = 1
    /\ overlap_analysis = EmptyAnalysis
    /\ container_order = <<>>
    /\ created_containers = {}
    /\ results = <<>>
    /\ calls = <<>>
    /\ RelIdle
    /\ ClsIdle
    /\ EaIdle
    /\ WebIdle

\* results = []; overlap_analysis = analyze_network_overlaps(missing_networks);
\* if overlap_analysis['containers']: the container loop, else the network loop.
Analyze ==
    /\ pc = "analyze"
    /\ \A k \in DOMAIN missing_networks : ~PrefixRaises(missing_networks[k].cidr)
    /\ overlap_analysis' = analyze_network_overlaps(missing_networks)
    /\ pc' = IF overlap_analysis'.containers # {} THEN "containers" ELSE "networks"
    /\ UNCHANGED <<missing_networks, dry_run, idx, container_order,
                   created_containers, results, calls>>
    /\ UNCHANGED relVars
    /\ UNCHANGED clsVars
    /\ UNCHANGED eaVars
    /\ UNCHANGED webVars

\* The sort key of analyze_network_overlaps raises on some record (IndexError
\* or ValueError); nothing catches it, so the executor raises to its caller.
AnalyzeRaises ==
    /\ pc = "analyze"
    /\ \E k \in DOMAIN missing_networks : PrefixRaises(missing_networks[k].cidr)
    /\ pc' = "raised"
    /\ UNCHANGED <<missing_networks, dry_run, idx, overlap_analysis, container_order,
                   created_containers, results, calls>>
    /\ UNCHANGED relVars
    /\ UNCHANGED clsVars
    /\ UNCHANGED eaVars
    /\ UNCHANGED webVars

Item == missing_networks[idx]

contained_networks(cidr) == Len(RelGet(overlap_analysis.relationships, cidr))

\* for item in missing_networks: if cidr not in containers: continue
ContainerSkip ==
    /\ pc = "containers"
    /\ idx <= Len(missing_networks)
    /\ Item.cidr \notin overlap_analysis.containers
    /\ idx' = idx + 1
    /\ UNCHANGED <<missing_networks, dry_run, pc, overlap_analysis, container_order,
                   created_containers, results, calls>>
    /\ UNCHANGED relVars
    /\ UNCHANGED clsVars
    /\ UNCHANGED eaVars
    /\ UNCHANGED webVars

ContainerDryRun ==
    /\ pc = "containers"
    /\ idx <= Len(missing_networks)
    /\ Item.cidr \in overlap_analysis.containers
    /\ dry_run
    /\ results' = Append(results,
            [cidr |-> Item.cidr, site_id |-> Item.site_id,
             action |-> "would_create_container", result |-> "success",
             category |-> "", parent_container |-> NoCidr,
             contained_networks |-> contained_networks(Item.cidr)])
    /\ created_containers' = created_containers \cup {Item.cidr}
    /\ idx' = idx + 1
    /\ UNCHANGED <<missing_networks, dry_run, pc, overlap_analysis, container_order, calls>>
    /\ UNCHANGED relVars
    /\ UNCHANGED clsVars
    /\ UNCHANGED eaVars
    /\ UNCHANGED webVars

ContainerCreated ==
    /\ pc = "containers"
    /\ idx <= Len(missing_networks)
    /\ Item.cidr \in overlap_analysis.containers
    /\ ~dry_run
    /\ calls' = Append(calls, [op |-> "create_network_container", cidr |-> Item.cidr,
                               site_id |-> Item.site_id])
    /\ results' = Append(results,
            [cidr |-> Item.cidr, site_id |-> Item.site_id,
             action |-> "created_container", result |-> "success",
             category |-> "", parent_container |-> NoCidr,
             contained_networks |-> contained_networks(Item.cidr)])
    /\ created_containers' = created_containers \cup {Item.cidr}
    /\ idx' = idx + 1
    /\ UNCHANGED <<missing_networks, dry_run, pc, overlap_analysis, container_order>>
    /\ UNCHANGED relVars
    /\ UNCHANGED clsVars
    /\ UNCHANGED eaVars
    /\ UNCHANGED webVars

\* ContainerFailed with the exception left to propagate out of the loops.
ContainerFailed_Aborts ==
    /\ pc = "containers"
    /\ idx <= Len(missing_networks)
    /\ Item.cidr \in overlap_analysis.containers
    /\ ~dry_run
    /\ calls' = Append(calls, [op |-> "create_network_container", cidr |-> Item.cidr,
                               site_id |-> Item.site_id])
    /\ results' = Append(results,
            [cidr |-> Item.cidr, site_id |-> Item.site_id,
             action |-> "error_container", result |-> "",
             category |-> "container_creation", parent_container |-> NoCidr,
             contained_networks |-> 0])
    /\ pc' = "done"
    /\ UNCHANGED <<missing_networks, dry_run, idx, overlap_analysis, container_order,
                   created_containers>>
    /\ UNCHANGED relVars
    /\ UNCHANGED clsVars
    /\ UNCHANGED eaVars
    /\ UNCHANGED webVars

\* create_network_container raises: except Exception as e.
ContainerFailed ==
    /\ pc = "containers"
    /\ idx <= Len(missing_networks)
    /\ Item.cidr \in overlap_analysis.containers
    /\ ~dry_run
    /\ calls' = Append(calls, [op |-> "create_network_container", cidr |-> Item.cidr,
                               site_id |-> Item.site_id])
    /\ results' = Append(results,
            [cidr |-> Item.cidr, site_id |-> Item.site_id,
             action |-> "error_container", result |-> "",
             category |-> "container_creation", parent_container |-> NoCidr,
             contained_networks |-> 0])
    /\ idx' = idx + 1
    /\ UNCHANGED <<missing_networks, dry_run, pc, overlap_analysis, container_order,
                   created_containers>>
    /\ UNCHANGED relVars
    /\ UNCHANGED clsVars
    /\ UNCHANGED eaVars
    /\ UNCHANGED webVars

\* ContainersDone with the container loop left one record early.
ContainersDone_EarlyExit ==
    /\ pc = "containers"
    /\ idx >= Len(missing_networks)
    /\ pc' = "networks"
    /\ idx' = 1
    /\ container_order' \in Orders(overlap_analysis.containers)
    /\ UNCHANGED <<missing_networks, dry_run, overlap_analysis,
                   created_containers, results, calls>>
    /\ UNCHANGED relVars
    /\ UNCHANGED clsVars
    /\ UNCHANGED eaVars
    /\ UNCHANGED webVars

\* The container loop is exhausted: on to the regular networks.  The network
\* loop iterates the containers set; the iteration order of a set of strings
\* is the same throughout the run but is not determined by the program
\* (string hashing), so any order may be the one that shows from here on.
ContainersDone ==
    /\ pc = "containers"
    /\ idx > Len(missing_networks)
    /\ pc' = "networks"
    /\ idx' = 1
    /\ container_order' \in Orders(overlap_analysis.containers)
    /\ UNCHANGED <<missing_networks, dry_run, overlap_analysis,
                   created_containers, results, calls>>
    /\ UNCHANGED relVars
    /\ UNCHANGED clsVars
    /\ UNCHANGED eaVars
    /\ UNCHANGED webVars

\* for container_cidr in containers: if check_network_overlap(container_cidr,
\* cidr) == 'contains': parent_container = container_cidr; break
RECURSIVE FirstContaining(_, _, _)
FirstContaining(order, k, cidr) ==
    IF k > Len(order) THEN NoCidr
    ELSE IF check_network_overlap(order[k], cidr) = "contains" THEN order[k]
    ELSE FirstContaining(order, k + 1, cidr)

\* parent_container left at None: the loop over the containers is not run.
parent_container_None(cidr) == NoCidr

parent_container(cidr) == FirstContaining(container_order, 1, cidr)

\* NetworkSkip that also passes over a record whose parent container was not
\* created.
NetworkSkip_FailedParent ==
    /\ pc = "networks"
    /\ idx <= Len(missing_networks)
    /\ \/ Item.cidr \in created_containers
       \/ parent_container(Item.cidr) \notin created_containers \cup {NoCidr}
    /\ idx' = idx + 1
    /\ UNCHANGED <<missing_networks, dry_run, pc, overlap_analysis, container_order,
                   created_containers, results, calls>>
    /\ UNCHANGED relVars
    /\ UNCHANGED clsVars
    /\ UNCHANGED eaVars
    /\ UNCHANGED webVars

\* for item in missing_networks: if cidr in created_containers: continue
NetworkSkip ==
    /\ pc = "networks"
    /\ idx <= Len(missing_networks)
    /\ Item.cidr \in created_containers
    /\ idx' = idx + 1
    /\ UNCHANGED <<missing_networks, dry_run, pc, overlap_analysis, container_order,
                   created_containers, results, calls>>
    /\ UNCHANGED relVars
    /\ UNCHANGED clsVars
    /\ UNCHANGED eaVars
    /\ UNCHANGED webVars

\* NetworkDryRun with the gateway called although dry_run is set.
NetworkDryRun_Calls ==
    /\ pc = "networks"
    /\ idx <= Len(missing_networks)
    /\ Item.cidr \notin created_containers
    /\ dry_run
    /\ calls' = Append(calls, [op |-> "create_network", cidr |-> Item.cidr,
                               site_id |-> Item.site_id])
    /\ results' = Append(results,
            [cidr |-> Item.cidr, site_id |-> Item.site_id,
             action |-> IF parent_container(Item.cidr) # NoCidr
                        THEN "would_create_in_container" ELSE "would_create",
             result |-> "success", category |-> "",
             parent_container |-> parent_container(Item.cidr),
             contained_networks |-> 0])
    /\ idx' = idx + 1
    /\ UNCHANGED <<missing_networks, dry_run, pc, overlap_analysis, container_order,
                   created_containers>>
    /\ UNCHANGED relVars
    /\ UNCHANGED clsVars
    /\ UNCHANGED eaVars
    /\ UNCHANGED webVars

NetworkDryRun ==
    /\ pc = "networks"
    /\ idx <= Len(missing_networks)
    /\ Item.cidr \notin created_containers
    /\ dry_run
    /\ results' = Append(results,
            [cidr |-> Item.cidr, site_id |-> Item.site_id,
             action |-> IF parent_container(Item.cidr) # NoCidr
                        THEN "would_create_in_container" ELSE "would_create",
             result |-> "success", category |-> "",
             parent_container |-> parent_container(Item.cidr),
             contained_networks |-> 0])
    /\ idx' = idx + 1
    /\ UNCHANGED <<missing_networks, dry_run, pc, overlap_analysis, container_order,
                   created_containers, calls>>
    /\ UNCHANGED relVars
    /\ UNCHANGED clsVars
    /\ UNCHANGED eaVars
    /\ UNCHANGED webVars

NetworkCreated ==
    /\ pc = "networks"
    /\ idx <= Len(missing_networks)
    /\ Item.cidr \notin created_containers
    /\ ~dry_run
    /\ calls' = Append(calls, [op |-> "create_network", cidr |-> Item.cidr,
                               site_id |-> Item.site_id])
    /\ results' = Append(results,
            [cidr |-> Item.cidr, site_id |-> Item.site_id,
             action |-> IF parent_container(Item.cidr) # NoCidr
                        THEN "created_in_container" ELSE "created",
             result |-> "success", category |-> "",
             parent_container |-> parent_container(Item.cidr),
             contained_networks |-> 0])
    /\ idx' = idx + 1
    /\ UNCHANGED <<missing_networks, dry_run, pc, overlap_analysis, container_order,
                   created_containers>>
    /\ UNCHANGED relVars
    /\ UNCHANGED clsVars
    /\ UNCHANGED eaVars
    /\ UNCHANGED webVars

\* NetworkFailed with the category left out of the result.
NetworkFailed_NoCategory ==
    /\ pc = "networks"
    /\ idx <= Len(missing_networks)
    /\ Item.cidr \notin created_containers
    /\ ~dry_run
    /\ results' = Append(results,
            [cidr |-> Item.cidr, site_id |-> Item.site_id,
             action |-> "error", result |-> "",
             category |-> "",
             parent_container |-> parent_container(Item.cidr),
             contained_networks |-> 0])
    /\ calls' = Append(calls, [op |-> "create_network", cidr |-> Item.cidr,
                               site_id |-> Item.site_id])
    /\ idx' = idx + 1
    /\ UNCHANGED <<missing_networks, dry_run, pc, overlap_analysis, container_order,
                   created_containers>>
    /\ UNCHANGED relVars
    /\ UNCHANGED clsVars
    /\ UNCHANGED eaVars
    /\ UNCHANGED webVars

\* create_network raises with message error_msg: except Exception as e.
NetworkFailed ==
    /\ pc = "networks"
    /\ idx <= Len(missing_networks)
    /\ Item.cidr \notin created_containers
    /\ ~dry_run
    /\ \E error_msg \in ErrorMessages :
         results' = Append(results,
            [cidr |-> Item.cidr, site_id |-> Item.site_id,
             action |-> "error", result |-> "",
             category |-> Categorize(error_msg),
             parent_container |-> parent_container(Item.cidr),
             contained_networks |-> 0])
    /\ calls' = Append(calls, [op |-> "create_network", cidr |-> Item.cidr,
                               site_id |-> Item.site_id])
    /\ idx' = idx + 1
    /\ UNCHANGED <<missing_networks, dry_run, pc, overlap_analysis, container_order,
                   created_containers>>
    /\ UNCHANGED relVars
    /\ UNCHANGED clsVars
    /\ UNCHANGED eaVars
    /\ UNCHANGED webVars

\* The network loop is exhausted: the report is written and results returned.
Return ==
    /\ pc = "networks"
    /\ idx > Len(missing_networks)
    /\ pc' = "done"
    /\ UNCHANGED <<missing_networks, dry_run, idx, overlap_analysis, container_order,
                   created_containers, results, calls>>
    /\ UNCHANGED relVars
    /\ UNCHANGED clsVars
    /\ UNCHANGED eaVars
    /\ UNCHANGED webVars

Next ==
    \/ Analyze
    \/ ContainerSkip
    \/ ContainerDryRun
    \/ ContainerCreated
    \/ ContainerFailed
    \/ ContainersDone
    \/ NetworkSkip
    \/ NetworkDryRun
    \/ NetworkCreated
    \/ NetworkFailed
    \/ Return

Spec == Init /\ [][Next]_vars

----------------------------------------------------------------------------
(* The executor on the four records of the end-to-end scenario, in any     *)
(* input order: a block one bit shorter than the longest prefix (10.0.0.0/16),*)
(* two blocks inside it (10.0.1.0/24, 10.0.2.0/24) and one outside         *)
(* (192.168.1.0/24).                                                       *)

ScenarioContainer == [addr |-> 0, len |-> AddrBits - 1]

ScenarioChildren == <<[addr |-> 0, len |-> AddrBits], [addr |-> 1, len |-> AddrBits]>>

ScenarioOther == [addr |-> 2, len |-> AddrBits]

ScenarioCidrs ==
    <<ScenarioContainer, ScenarioChildren[1], ScenarioChildren[2], ScenarioOther>>

ScenarioBatches ==
    {[k \in 1 .. 4 |-> [cidr |-> ScenarioCidrs[p[k]], site_id |-> k]] :
        p \in {q \in [1 .. 4 -> 1 .. 4] : \A a, b \in 1 .. 4 : a # b => q[a] # q[b]}}

InitScenario ==
    /\ missing_networks \in ScenarioBatches
    /\ dry_run \in BOOLEAN
    /\ pc = "analyze"
    /\ idx = 1
    /\ overlap_analysis = EmptyAnalysis
    /\ container_order = <<>>
    /\ created_containers = {}
    /\ results = <<>>
    /\ calls = <<>>
    /\ RelIdle
    /\ ClsIdle
    /\ EaIdle
    /\ WebIdle

SpecScenario == InitScenario /\ [][Next]_vars

----------------------------------------------------------------------------
(* The executor on a batch that holds malformed CIDR strings.              *)

MalformedBatchCidrs == {c \in MalformedStrings : c.addr = 0 \/ c.form = "bad_address"}

\* The batches of n records of which at least one is malformed.
MalformedBatches(n) ==
    {[k \in 1 .. n |-> [cidr |-> cs[k], site_id |-> k]] :
        cs \in {f \in [1 .. n -> BatchCidrs \cup MalformedBatchCidrs] :
                   \E k \in 1 .. n : HasForm(f[k])}}

InitMalformed ==
    /\ \E n \in 1 .. MaxBatch : missing_networks \in MalformedBatches(n)
    /\ dry_run \in BOOLEAN
    /\ pc = "analyze"
    /\ idx = 1
    /\ overlap_analysis = EmptyAnalysis
    /\ container_order = <<>>
    /\ created_containers = {}
    /\ results = <<>>
    /\ calls = <<>>
    /\ RelIdle
    /\ ClsIdle
    /\ EaIdle
    /\ WebIdle

NextMalformed ==
    \/ Next
    \/ AnalyzeRaises

SpecMalformed == InitMalformed /\ [][NextMalformed]_vars

----------------------------------------------------------------------------
(* check_network_overlap on its own: one call on a pair of CIDR strings.   *)

ExecIdle ==
    /\ missing_networks = <<>>
    /\ dry_run = FALSE
    /\ pc = "idle"
    /\ idx = 1
    /\ overlap_analysis = EmptyAnalysis
    /\ container_order = <<>>
    /\ created_containers = {}
    /\ results = <<>>
    /\ calls = <<>>

InitRelate ==
    /\ ExecIdle
    /\ ClsIdle
    /\ EaIdle
    /\ WebIdle
    /\ cidr1 \in CidrStrings \cup MalformedStrings
    /\ cidr2 \in CidrStrings \cup MalformedStrings
    /\ overlap_type = "pending"

CheckNetworkOverlap ==
    /\ overlap_type = "pending"
    /\ overlap_type' = check_network_overlap(cidr1, cidr2)
    /\ UNCHANGED <<cidr1, cidr2>>
    /\ UNCHANGED execVars
    /\ UNCHANGED clsVars
    /\ UNCHANGED eaVars
    /\ UNCHANGED webVars

NextRelate == CheckNetworkOverlap

SpecRelate == InitRelate /\ [][NextRelate]_vars

----------------------------------------------------------------------------
(* The classification of a failure message on its own.  A message is the   *)
(* set of the keywords that occur in it once lower-cased.                  *)

Keywords ==
    {"overlap", "parent", "permission", "auth", "invalid", "network view",
     "not found", "extensible", "attribute"}

\* create_missing_networks of prop_infoblox_import_part2.py, for a message
\* that is not an 'already exists' or 'duplicate' message.
CategorizeCreateMissing(msg) ==
    IF "overlap" \in msg \/ "parent" \in msg THEN "overlap"
    ELSE IF "permission" \in msg \/ "auth" \in msg THEN "permission"
    ELSE IF "invalid" \in msg THEN "invalid"
    ELSE IF "network view" \in msg THEN "network_view_error"
    ELSE IF "not found" \in msg THEN "not_found"
    ELSE IF "extensible" \in msg \/ "attribute" \in msg THEN "ea_error"
    ELSE "unknown"

InitClassify ==
    /\ ExecIdle
    /\ RelIdle
    /\ EaIdle
    /\ WebIdle
    /\ error_lower \in SUBSET Keywords
    /\ error_category = "pending"

\* The except branch of the network loop of
\* create_networks_with_overlap_handling classifies the message.
ClassifyOverlapAware ==
    /\ error_category = "pending"
    /\ error_category' = Categorize(error_lower)
    /\ UNCHANGED error_lower
    /\ UNCHANGED execVars
    /\ UNCHANGED relVars
    /\ UNCHANGED eaVars
    /\ UNCHANGED webVars

\* The except branch of create_missing_networks classifies the message.
ClassifyCreateMissing ==
    /\ error_category = "pending"
    /\ error_category' = CategorizeCreateMissing(error_lower)
    /\ UNCHANGED error_lower
    /\ UNCHANGED execVars
    /\ UNCHANGED relVars
    /\ UNCHANGED eaVars
    /\ UNCHANGED webVars

NextClassify ==
    \/ ClassifyOverlapAware
    \/ ClassifyCreateMissing

SpecClassify == InitClassify /\ [][NextClassify]_vars

----------------------------------------------------------------------------
(* Vocabulary of the properties                                            *)

ContainerActions == {"would_create_container", "created_container", "error_container"}

NetworkActions ==
    {"would_create", "would_create_in_container", "created", "created_in_container", "error"}

IsContainerResult(r) == r.action \in ContainerActions

IsNetworkResult(r) == r.action \in NetworkActions

Range(seq) == {seq[k] : k \in DOMAIN seq}

\* Block a contains block b and the two blocks differ.
StrictlyContains(a, b) ==
    /\ subnet_of(ip_network(b), ip_network(a))
    /\ ip_network(a) # ip_network(b)

Analyzed == pc \in {"containers", "networks", "done"}

\* analyze_network_overlaps has just returned: no step has been taken yet.
JustAnalyzed == pc \in {"containers", "networks"} /\ idx = 1 /\ results = <<>>

\* Positions of the results of each kind for the record of row k.
ContainerResultsOf(k) ==
    {m \in DOMAIN results : IsContainerResult(results[m]) /\ results[m].site_id = k}

NetworkResultsOf(k) ==
    {m \in DOMAIN results : IsNetworkResult(results[m]) /\ results[m].site_id = k}

----------------------------------------------------------------------------
\* C1: whenever container A strictly contains container B, the container
\* step for A (create_network_container call, or would_create_container
\* result in a dry run) comes before the container step for B.
C1_ContainersInPrefixOrder ==
    \A m, n \in DOMAIN results :
        ( /\ IsContainerResult(results[m])
          /\ IsContainerResult(results[n])
          /\ StrictlyContains(results[m].cidr, results[n].cidr) )
        => m < n

\* C2: the parent_container of a record that is not a container is the most
\* specific container containing it, and is none exactly when no container
\* contains it.
C2_ParentIsNearestContainer ==
    \A m \in DOMAIN results :
        LET r == results[m]
            containing == {c \in overlap_analysis.containers :
                              check_network_overlap(c, r.cidr) = "contains"}
        IN  (IsNetworkResult(r) /\ r.cidr \notin overlap_analysis.containers)
            => IF containing = {} THEN r.parent_container = NoCidr
               ELSE /\ r.parent_container \in containing
                    /\ \A c \in containing : c.len <= r.parent_container.len

\* C3: all container entries precede all network entries, in the result list
\* and in the sequence of gateway calls, and once a network step has begun
\* every record whose CIDR is a container has had its container step
\* attempted, whether that step succeeded or failed.
C3_ContainerPhaseBarrier ==
    /\ \A n \in DOMAIN results :
          IsNetworkResult(results[n])
          => \A m \in DOMAIN results : IsContainerResult(results[m]) => m < n
    /\ \A n \in DOMAIN calls :
          calls[n].op = "create_network"
          => \A m \in DOMAIN calls :
                calls[m].op = "create_network_container" => m < n
    /\ (\E n \in DOMAIN results : IsNetworkResult(results[n]))
       => \A k \in DOMAIN missing_networks :
             missing_networks[k].cidr \in overlap_analysis.containers
             => /\ ContainerResultsOf(k) # {}
                /\ ~dry_run =>
                     \E m \in DOMAIN calls :
                        /\ calls[m].op = "create_network_container"
                        /\ calls[m].site_id = k

\* A live run has ended in which one container step failed, another one
\* succeeded, and a network was submitted afterwards.
C3_Witness ==
    /\ pc = "done"
    /\ ~dry_run
    /\ \E m \in DOMAIN results : results[m].action = "error_container"
    /\ \E m \in DOMAIN results : results[m].action = "created_container"
    /\ \E m \in DOMAIN calls : calls[m].op = "create_network"

\* C4: check_network_overlap on two identical CIDR strings returns 'overlap'.
C4_IdenticalIsOverlap ==
    (overlap_type # "pending" /\ cidr1 = cidr2) => overlap_type = "overlap"

\* C5: relate(a, b) = 'contains' iff relate(b, a) = 'contained', and
\* relate(a, b) is 'overlap' or 'none' iff relate(b, a) is that same value.
C5_ConsistentInverses ==
    overlap_type # "pending" =>
        LET back == check_network_overlap(cidr2, cidr1)
        IN  /\ (overlap_type = "contains") <=> (back = "contained")
            /\ (overlap_type = "overlap") <=> (back = "overlap")
            /\ (overlap_type = "none") <=> (back = "none")

\* C6: when two records carry the same CIDR, the pair is in overlaps, the
\* CIDR is in containers only if it strictly contains some record of the
\* batch, and no result for that CIDR names it as its own parent_container.
C6_DuplicatePairIsOverlap ==
    Analyzed =>
        \A i, j \in DOMAIN missing_networks :
            (i < j /\ missing_networks[i].cidr = missing_networks[j].cidr) =>
                /\ \E o \in Range(overlap_analysis.overlaps) :
                      {o.network1, o.network2} = {missing_networks[i], missing_networks[j]}
                /\ missing_networks[i].cidr \in overlap_analysis.containers
                   => \E k \in DOMAIN missing_networks :
                         StrictlyContains(missing_networks[i].cidr, missing_networks[k].cidr)
                /\ \A m \in DOMAIN results :
                      results[m].cidr = missing_networks[i].cidr
                      => results[m].parent_container # missing_networks[i].cidr

\* C7: containers is exactly the set of CIDRs of the batch that contain, and
\* differ from, the CIDR of at least one other record of the batch.
C7_ContainersAreStrictSupernets ==
    Analyzed =>
        overlap_analysis.containers =
            {missing_networks[i].cidr : i \in
                {i \in DOMAIN missing_networks :
                    \E j \in DOMAIN missing_networks :
                        /\ j # i
                        /\ missing_networks[j].cidr # missing_networks[i].cidr
                        /\ check_network_overlap(missing_networks[i].cidr,
                                                 missing_networks[j].cidr) = "contains"}}

\* C8: in the analysis the analyzer returns, for every container c,
\* relationships[c] lists every record of the batch whose block is a strict
\* subnet of c, however deeply nested, and lists only records whose block
\* lies inside c.
C8_RelationshipsAreAllSubnets ==
    JustAnalyzed =>
        /\ DOMAIN overlap_analysis.relationships = overlap_analysis.containers
        /\ \A c \in overlap_analysis.containers :
              /\ \A k \in DOMAIN missing_networks :
                    StrictlyContains(c, missing_networks[k].cidr)
                    => missing_networks[k] \in Range(overlap_analysis.relationships[c])
              /\ \A r \in Range(overlap_analysis.relationships[c]) :
                    /\ r \in Range(missing_networks)
                    /\ subnet_of(ip_network(r.cidr), ip_network(c))

\* Three nested blocks have been analyzed: the innermost record is listed
\* under the outermost container and under the middle one.
C8_Witness ==
    /\ JustAnalyzed
    /\ \E a, b \in overlap_analysis.containers :
          /\ StrictlyContains(a, b)
          /\ \E r \in Range(overlap_analysis.relationships[b]) :
                /\ StrictlyContains(b, r.cidr)
                /\ r \in Range(overlap_analysis.relationships[a])

\* C9: for a batch of pairwise distinct CIDRs, the returned result list holds
\* exactly one result per input record.
C9_OneResultPerRecord ==
    ( /\ pc = "done"
      /\ \A i, j \in DOMAIN missing_networks :
            i # j => missing_networks[i].cidr # missing_networks[j].cidr )
    => /\ Len(results) = Len(missing_networks)
       /\ \A k \in DOMAIN missing_networks :
             Cardinality({m \in DOMAIN results : results[m].site_id = k}) = 1

\* C10: when the executor returns, every step has been attempted whatever
\* failed before it: every record whose CIDR is a container has a container
\* result, every record whose CIDR was not created as a container has a
\* network result, and in a live run the gateway was called for each.
C10_FailureDoesNotAbort ==
    pc = "done" =>
        \A k \in DOMAIN missing_networks :
            /\ missing_networks[k].cidr \in overlap_analysis.containers
               => /\ ContainerResultsOf(k) # {}
                  /\ ~dry_run =>
                       \E m \in DOMAIN calls :
                          /\ calls[m].op = "create_network_container"
                          /\ calls[m].site_id = k
            /\ missing_networks[k].cidr \notin created_containers
               => /\ NetworkResultsOf(k) # {}
                  /\ ~dry_run =>
                       \E m \in DOMAIN calls :
                          /\ calls[m].op = "create_network"
                          /\ calls[m].site_id = k

\* The executor has returned from a run in which a container step failed
\* and a later container step was attempted, and a network step failed and
\* a later network step was attempted.
C10_Witness ==
    /\ pc = "done"
    /\ \E m, n \in DOMAIN results :
          /\ m < n
          /\ results[m].action = "error_container"
          /\ IsContainerResult(results[n])
    /\ \E m, n \in DOMAIN results :
          /\ m < n
          /\ results[m].action = "error"
          /\ IsNetworkResult(results[n])

----------------------------------------------------------------------------
\* The step a result reports: the record, container or network, and parent.
StepOf(r) ==
    [cidr |-> r.cidr, site_id |-> r.site_id,
     kind |-> IF IsContainerResult(r) THEN "container" ELSE "network",
     parent_container |-> r.parent_container]

StepsOf(rs) == [k \in DOMAIN rs |-> StepOf(rs[k])]

\* The steps a dry run lists for a batch: with dry_run set no step can fail,
\* so the container loop lists every record whose CIDR is a container and
\* the network loop every other record, each in input order.
RECURSIVE DryRunContainerSteps(_, _)
DryRunContainerSteps(networks, analysis) ==
    IF networks = <<>> THEN <<>>
    ELSE IF Head(networks).cidr \in analysis.containers
         THEN <<[cidr |-> Head(networks).cidr, site_id |-> Head(networks).site_id,
                 kind |-> "container", parent_container |-> NoCidr]>>
              \o DryRunContainerSteps(Tail(networks), analysis)
         ELSE DryRunContainerSteps(Tail(networks), analysis)

RECURSIVE DryRunNetworkSteps(_, _, _)
DryRunNetworkSteps(networks, analysis, order) ==
    IF networks = <<>> THEN <<>>
    ELSE IF Head(networks).cidr \notin analysis.containers
         THEN <<[cidr |-> Head(networks).cidr, site_id |-> Head(networks).site_id,
                 kind |-> "network",
                 parent_container |-> FirstContaining(order, 1, Head(networks).cidr)]>>
              \o DryRunNetworkSteps(Tail(networks), analysis, order)
         ELSE DryRunNetworkSteps(Tail(networks), analysis, order)

DryRunSteps(networks, analysis, order) ==
    DryRunContainerSteps(networks, analysis)
        \o DryRunNetworkSteps(networks, analysis, order)

\* C11: the steps of a finished run, live or dry, are exactly the steps the
\* dry run lists for the same input: same count, same CIDR, same kind and
\* same parent_container at each position, whatever the gateway answered.
C11_DryRunEnumeratesLiveSteps ==
    pc = "done" =>
        StepsOf(results) = DryRunSteps(missing_networks, overlap_analysis, container_order)

\* C12: in a dry run the gateway is never called and every result action
\* carries the would_ prefix.
C12_DryRunMakesNoCalls ==
    dry_run =>
        /\ calls = <<>>
        /\ \A m \in DOMAIN results :
              results[m].action \in
                 {"would_create_container", "would_create", "would_create_in_container"}

\* A dry run has ended that listed a container and a network inside it.
C12_Witness ==
    /\ dry_run
    /\ pc = "done"
    /\ \E m \in DOMAIN results : results[m].action = "would_create_container"
    /\ \E m \in DOMAIN results : results[m].action = "would_create_in_container"

\* The rule table: the first row whose substring occurs in the message.
TableCategory(msg) ==
    IF "overlap" \in msg THEN "overlap"
    ELSE IF "permission" \in msg \/ "auth" \in msg THEN "permission"
    ELSE IF "invalid" \in msg THEN "invalid"
    ELSE IF "network view" \in msg THEN "network_view_error"
    ELSE IF "not found" \in msg THEN "not_found"
    ELSE IF "extensible" \in msg \/ "attribute" \in msg THEN "ea_error"
    ELSE "unknown"

\* C13: the category given to a failure is that of the first row of the rule
\* table whose substring occurs in the lower-cased message, and 'unknown'
\* when no row matches.
C13_CategoryFollowsRuleTable ==
    error_category # "pending" => error_category = TableCategory(error_lower)

ErrorActions == {"error", "error_container"}

ErrorCategories ==
    {"overlap", "permission", "invalid", "network_view_error", "not_found",
     "ea_error", "unknown"}

----------------------------------------------------------------------------
\* The malformed strings the analysis mentions: as a container, as the key of
\* a relationships list or a member of one, or on either side of an overlap.
MentionedInAnalysis(cidr) ==
    \/ cidr \in overlap_analysis.containers
    \/ cidr \in DOMAIN overlap_analysis.relationships
    \/ \E c \in DOMAIN overlap_analysis.relationships :
          \E n \in DOMAIN overlap_analysis.relationships[c] :
              overlap_analysis.relationships[c][n].cidr = cidr
    \/ \E n \in DOMAIN overlap_analysis.overlaps :
          \/ overlap_analysis.overlaps[n].network1.cidr = cidr
          \/ overlap_analysis.overlaps[n].network2.cidr = cidr

\* C15: on a batch that holds a malformed CIDR string the analyzer returns
\* without raising, the malformed record is in none of containers,
\* relationships and overlaps, and no step of the executor (result or
\* gateway call) is about it.
C15_MalformedExcluded ==
    /\ pc # "raised"
    /\ \A k \in DOMAIN missing_networks :
          HasForm(missing_networks[k].cidr) =>
              /\ ~MentionedInAnalysis(missing_networks[k].cidr)
              /\ \A m \in DOMAIN results : results[m].site_id # k
              /\ \A m \in DOMAIN calls : calls[m].site_id # k

----------------------------------------------------------------------------
\* The prefix length a string is read with: a bare address is one address.
PrefixLen(cidr) ==
    IF HasForm(cidr) /\ cidr.form = "no_slash" THEN AddrBits ELSE cidr.len

\* The network that encloses the address of a string at its prefix length.
EnclosingNetwork(cidr) ==
    [addr |-> (cidr.addr \div Pow2(AddrBits - PrefixLen(cidr))) * Pow2(AddrBits - PrefixLen(cidr)),
     len  |-> PrefixLen(cidr)]

HostBitsSet(cidr) == ~ParseFails(cidr) /\ EnclosingNetwork(cidr).addr # cidr.addr

RelateAnswers == {"contains", "contained", "overlap", "none", "error"}

\* C16: check_network_overlap always returns one of its five answers (no
\* exception reaches the caller), the answer is 'error' whenever either
\* string fails to parse, and a string with host bits set is not rejected:
\* the answer is the one for the network that encloses its address.
C16_ErrorOnParseFailureNeverRaises ==
    overlap_type # "pending" =>
        /\ overlap_type \in RelateAnswers
        /\ (ParseFails(cidr1) \/ ParseFails(cidr2)) => overlap_type = "error"
        /\ (~ParseFails(cidr1) /\ ~ParseFails(cidr2)) =>
              /\ overlap_type # "error"
              /\ overlap_type =
                    check_network_overlap(EnclosingNetwork(cidr1), EnclosingNetwork(cidr2))

\* One string fails to parse, the other has host bits set: 'error' returned.
C16_Witness ==
    /\ overlap_type = "error"
    /\ ParseFails(cidr1)
    /\ HostBitsSet(cidr2)

\* A second case of C16: both strings parse and one has host bits set.
C16_HostBitsWitness ==
    /\ overlap_type \in {"contains", "contained", "overlap", "none"}
    /\ HostBitsSet(cidr1)
    /\ ~ParseFails(cidr2)

----------------------------------------------------------------------------
\* The addresses of the block a string names: those that agree with its
\* address on the first PrefixLen bits.
Addresses(cidr) ==
    {x \in 0 .. (Pow2(AddrBits) - 1) :
        x \div Pow2(AddrBits - PrefixLen(cidr))
            = cidr.addr \div Pow2(AddrBits - PrefixLen(cidr))}

\* C19: for valid blocks a and b with a's prefix shorter than b's,
\* check_network_overlap(a, b) is 'contains' exactly when every address of
\* b is an address of a and 'none' otherwise; two distinct blocks of equal
\* prefix length give 'none'.
C19_DecidesByRangeInclusion ==
    (overlap_type # "pending" /\ ~ParseFails(cidr1) /\ ~ParseFails(cidr2)) =>
        /\ PrefixLen(cidr1) < PrefixLen(cidr2) =>
              overlap_type = IF Addresses(cidr2) \subseteq Addresses(cidr1)
                             THEN "contains" ELSE "none"
        /\ (PrefixLen(cidr1) = PrefixLen(cidr2) /\ Addresses(cidr1) # Addresses(cidr2)) =>
              overlap_type = "none"

\* A shorter prefix that does not contain the longer one: 'none'.
C19_Witness ==
    /\ overlap_type = "none"
    /\ ~ParseFails(cidr1)
    /\ ~ParseFails(cidr2)
    /\ PrefixLen(cidr1) < PrefixLen(cidr2)
    /\ ~(Addresses(cidr2) \subseteq Addresses(cidr1))

----------------------------------------------------------------------------
\* No record of the batch names a block that contains the block of another
\* record and differs from it.
NoContainment ==
    \A i, j \in DOMAIN missing_networks :
        ~StrictlyContains(missing_networks[i].cidr, missing_networks[j].cidr)

\* C17: for a batch in which no CIDR contains another, containers is empty,
\* no container step is issued, and every record becomes exactly one
\* network step with no parent container.
C17_NoContainmentAllStandalone ==
    (Analyzed /\ NoContainment) =>
        /\ overlap_analysis.containers = {}
        /\ \A m \in DOMAIN results :
              IsNetworkResult(results[m]) /\ results[m].parent_container = NoCidr
        /\ pc = "done" =>
              \A k \in DOMAIN missing_networks : Cardinality(NetworkResultsOf(k)) = 1

----------------------------------------------------------------------------
\* The plan expected for a scenario batch: the container step, then one
\* network step for every other record in input order, the two blocks
\* inside the container with it as parent and the block outside with none.
RECURSIVE ScenarioNetworkSteps(_)
ScenarioNetworkSteps(networks) ==
    IF networks = <<>> THEN <<>>
    ELSE IF Head(networks).cidr = ScenarioContainer
         THEN ScenarioNetworkSteps(Tail(networks))
         ELSE <<[cidr |-> Head(networks).cidr, site_id |-> Head(networks).site_id,
                 kind |-> "network",
                 parent_container |-> IF Head(networks).cidr = ScenarioOther
                                      THEN NoCidr ELSE ScenarioContainer]>>
              \o ScenarioNetworkSteps(Tail(networks))

ScenarioPlan(networks) ==
    <<[cidr |-> ScenarioContainer,
       site_id |-> (CHOOSE k \in DOMAIN networks : networks[k].cidr = ScenarioContainer),
       kind |-> "container", parent_container |-> NoCidr]>>
        \o ScenarioNetworkSteps(networks)

NoContainerStepFailed ==
    \A m \in DOMAIN results :
        IsContainerResult(results[m]) => results[m].action # "error_container"

----------------------------------------------------------------------------
\* C21: when the same CIDR appears in more than one record of the batch, the
\* gateway is called at most once to create that CIDR.
C21_DuplicateCreatedOnce ==
    \A i, j \in DOMAIN missing_networks :
        (i # j /\ missing_networks[i].cidr = missing_networks[j].cidr) =>
            Cardinality({m \in DOMAIN calls : calls[m].cidr = missing_networks[i].cidr}) <= 1

----------------------------------------------------------------------------
\* The create_network calls made for the record of row k.
NetworkCallsOf(k) ==
    {m \in DOMAIN calls : calls[m].op = "create_network" /\ calls[m].site_id = k}

\* The rows of the records that are not containers and lie inside block K.
LeavesInside(K) ==
    {k \in DOMAIN missing_networks :
        /\ missing_networks[k].cidr \notin overlap_analysis.containers
        /\ StrictlyContains(K, missing_networks[k].cidr)}

\* C22: in a finished live run, for every container K whose creation
\* failed, every record that is not a container and lies inside K was
\* submitted to create_network exactly once and has exactly one network
\* result, created or error.
C22_FailedContainerBlocksNoLeaf ==
    (pc = "done" /\ ~dry_run) =>
        \A m \in DOMAIN results :
            results[m].action = "error_container" =>
                \A k \in LeavesInside(results[m].cidr) :
                    /\ Cardinality(NetworkCallsOf(k)) = 1
                    /\ Cardinality(NetworkResultsOf(k)) = 1

\* A finished live run in which a container failed and a record inside it
\* was submitted as a network.
C22_Witness ==
    /\ pc = "done"
    /\ ~dry_run
    /\ \E m \in DOMAIN results :
          /\ results[m].action = "error_container"
          /\ LeavesInside(results[m].cidr) # {}

----------------------------------------------------------------------------
\* C23: the network steps are issued in ascending order of prefix length,
\* whatever the order of the input list.
C23_LeafStepsInPrefixOrder ==
    \A m, n \in DOMAIN results :
        (m < n /\ IsNetworkResult(results[m]) /\ IsNetworkResult(results[n])) =>
            PrefixLen(results[m].cidr) <= PrefixLen(results[n].cidr)

----------------------------------------------------------------------------
\* C24: in the list sorted by ascending prefix length, check_network_overlap
\* of an earlier record with a later one is never 'contained', ties of equal
\* prefix length and duplicates included.
C24_NoContainedInSortedOrder ==
    JustAnalyzed =>
        LET sorted == sorted_networks(missing_networks)
        IN  \A i, j \in DOMAIN sorted :
                i < j => check_network_overlap(sorted[i].cidr, sorted[j].cidr) # "contained"

\* An analysed batch with a duplicate and a pair that the input lists with
\* the longer prefix first.
C24_Witness ==
    /\ JustAnalyzed
    /\ \E i, j \in DOMAIN missing_networks :
          i # j /\ missing_networks[i].cidr = missing_networks[j].cidr
    /\ \E i, j \in DOMAIN missing_networks :
          /\ i < j
          /\ check_network_overlap(missing_networks[i].cidr, missing_networks[j].cidr)
                = "contained"

----------------------------------------------------------------------------
\* C26: check_network_overlap never answers 'overlap': two blocks are
\* nested, equal or disjoint, and equal blocks are answered 'contains'.
C26_NeverPartialOverlap ==
    overlap_type # "overlap"

\* Equal blocks written differently: answered by the supernet test.
C26_Witness ==
    /\ overlap_type = "contains"
    /\ ~ParseFails(cidr1)
    /\ ~ParseFails(cidr2)
    /\ cidr1 # cidr2
    /\ Addresses(cidr1) = Addresses(cidr2)

----------------------------------------------------------------------------
\* C27: a CIDR that is in containers is never passed to create_network and
\* never has a network result.
C27_ContainerNeverSubmittedAsNetwork ==
    /\ \A m \in DOMAIN calls :
          calls[m].op = "create_network" =>
              calls[m].cidr \notin overlap_analysis.containers
    /\ \A m \in DOMAIN results :
          IsNetworkResult(results[m]) =>
              results[m].cidr \notin overlap_analysis.containers

----------------------------------------------------------------------------
\* The input list in every order; a record keeps its site_id.
InputOrders(seq) ==
    {[k \in DOMAIN seq |-> seq[p[k]]] :
        p \in {q \in [DOMAIN seq -> DOMAIN seq] :
                  \A a, b \in DOMAIN seq : a # b => q[a] # q[b]}}

\* The CIDRs a container is recorded to contain.
ContainedCidrs(analysis, c) ==
    {RelGet(analysis.relationships, c)[n].cidr :
        n \in DOMAIN RelGet(analysis.relationships, c)}

----------------------------------------------------------------------------
(* The gateway client's cache of Extended Attribute definitions            *)
(* (InfoBloxClient in aws_infoblox_vpc_manager_fixed.py).  server_eas is   *)
(* the set of EA names defined on the server, ea_cache the dict            *)
(* self._ea_cache, created_eas the names whose POST by this client         *)
(* succeeded, ensure_log the (required_eas, results) of the last two       *)
(* returned runs of ensure_required_eas_exist.                             *)

EANames == {"Owner", "Environment"}

\* 'definitions' in self._ea_cache
Cached == "definitions" \in DOMAIN ea_cache

InitEa ==
    /\ ExecIdle
    /\ RelIdle
    /\ ClsIdle
    /\ WebIdle
    /\ server_eas \in SUBSET EANames
    /\ ea_cache = EmptyCache
    /\ created_eas = {}
    /\ ensure_log = <<>>
    /\ ea_calls = 0

EaOthersUnchanged ==
    /\ UNCHANGED execVars
    /\ UNCHANGED relVars
    /\ UNCHANGED clsVars
    /\ UNCHANGED webVars

\* get_extensible_attributes: the server is asked only when the cache holds
\* no definitions; the cached definitions are returned.
GetExtensibleAttributes ==
    /\ ea_calls < MaxEaCalls
    /\ ea_calls' = ea_calls + 1
    /\ ea_cache' = IF Cached THEN ea_cache
                   ELSE [k \in {"definitions"} |-> server_eas]
    /\ UNCHANGED <<server_eas, created_eas, ensure_log>>
    /\ EaOthersUnchanged

\* create_extensible_attribute, the POST succeeding: the definition exists on
\* the server from now on and the cached definitions are deleted.
CreateSucceeds ==
    /\ ea_calls < MaxEaCalls
    /\ ea_calls' = ea_calls + 1
    /\ \E name \in EANames \ server_eas :
          /\ server_eas' = server_eas \cup {name}
          /\ created_eas' = created_eas \cup {name}
    /\ ea_cache' = EmptyCache
    /\ UNCHANGED ensure_log
    /\ EaOthersUnchanged

\* create_extensible_attribute, the POST answered 400 "already exists":
\* {'status': 'exists'} is returned and the cache is left as it is.
CreateAlreadyExists ==
    /\ ea_calls < MaxEaCalls
    /\ ea_calls' = ea_calls + 1
    /\ server_eas # {}
    /\ UNCHANGED <<server_eas, ea_cache, created_eas, ensure_log>>
    /\ EaOthersUnchanged

\* create_extensible_attribute, the POST failing otherwise: the error is
\* raised to the caller.
CreateRaises ==
    /\ ea_calls < MaxEaCalls
    /\ ea_calls' = ea_calls + 1
    /\ UNCHANGED <<server_eas, ea_cache, created_eas, ensure_log>>
    /\ EaOthersUnchanged

\* results[ea_name] = value
SetResult(res, ea_name, value) ==
    [n \in (DOMAIN res) \cup {ea_name} |-> IF n = ea_name THEN value ELSE res[n]]

\* The loop of ensure_required_eas_exist over required_eas from position k.
\* existing_names was computed once before the loop.  st holds the server's
\* definitions, the cache, the names created, the results so far and whether
\* a create has raised; the create at position failAt raises.
RECURSIVE EnsureLoop(_, _, _, _, _)
EnsureLoop(required_eas, k, existing_names, st, failAt) ==
    IF k > Len(required_eas) THEN st
    ELSE LET ea_name == required_eas[k]
         IN  IF ea_name \in existing_names
             THEN EnsureLoop(required_eas, k + 1, existing_names,
                             [st EXCEPT !.results = SetResult(@, ea_name, "exists")],
                             failAt)
             ELSE IF k = failAt
             THEN [st EXCEPT !.raised = TRUE]
             ELSE IF ea_name \in st.server
             THEN EnsureLoop(required_eas, k + 1, existing_names,
                             [st EXCEPT !.results = SetResult(@, ea_name, "created")],
                             failAt)
             ELSE EnsureLoop(required_eas, k + 1, existing_names,
                             [st EXCEPT !.server = @ \cup {ea_name},
                                        !.cache = EmptyCache,
                                        !.created = @ \cup {ea_name},
                                        !.results = SetResult(@, ea_name, "created")],
                             failAt)

RequiredLists ==
    UNION {[1 .. n -> EANames] : n \in 1 .. MaxRequired}

\* ensure_required_eas_exist(required_eas): the existing names are read
\* through get_extensible_attributes, then every missing name is created.
\* A run in which a create raises returns no results.
EnsureRequiredEasExist ==
    /\ ea_calls < MaxEaCalls
    /\ ea_calls' = ea_calls + 1
    /\ \E required_eas \in RequiredLists, failAt \in 0 .. MaxRequired :
          LET fetched == IF Cached THEN ea_cache
                         ELSE [k \in {"definitions"} |-> server_eas]
              st == EnsureLoop(required_eas, 1, fetched["definitions"],
                               [server |-> server_eas, cache |-> fetched,
                                created |-> created_eas,
                                results |-> [n \in {} |-> ""],
                                raised |-> FALSE],
                               failAt)
          IN  /\ server_eas' = st.server
              /\ ea_cache' = st.cache
              /\ created_eas' = st.created
              /\ ensure_log' =
                    IF st.raised THEN ensure_log
                    ELSE LET run == [required_eas |-> required_eas, results |-> st.results]
                         IN  IF ensure_log = <<>> THEN <<run>>
                             ELSE <<ensure_log[Len(ensure_log)], run>>
    /\ EaOthersUnchanged

\* Another user of the same server defines an EA there.
OtherClientCreates ==
    /\ \E name \in EANames \ server_eas : server_eas' = server_eas \cup {name}
    /\ UNCHANGED <<ea_cache, created_eas, ensure_log, ea_calls>>
    /\ EaOthersUnchanged

NextEa ==
    \/ GetExtensibleAttributes
    \/ CreateSucceeds
    \/ CreateAlreadyExists
    \/ CreateRaises
    \/ EnsureRequiredEasExist
    \/ OtherClientCreates

SpecEa == InitEa /\ [][NextEa]_vars

----------------------------------------------------------------------------
\* C25: the cache is invalidated on write.  Cached definitions, which are
\* what get_extensible_attributes returns, include every EA this client
\* created successfully; and of two runs of ensure_required_eas_exist on the
\* same list, the second reports 'exists' for every name the first reported
\* 'created'.
C25_CacheInvalidatedOnWrite ==
    /\ Cached => created_eas \subseteq ea_cache["definitions"]
    /\ ( /\ Len(ensure_log) = 2
         /\ ensure_log[1].required_eas = ensure_log[2].required_eas )
       => \A n \in DOMAIN ensure_log[1].results :
              ensure_log[1].results[n] = "created"
                  => ensure_log[2].results[n] = "exists"

----------------------------------------------------------------------------
(* The import jobs of the web application (web_app_app.py).  jobs is the   *)
(* table jobs: Dict[str, JobStatus]; tasks[r] is the background task added *)
(* by the r-th accepted request; now is the wall clock in whole seconds.   *)
(* A job_id is the kind prefix followed by the time to the second.  The    *)
(* field request of a JobStatus names the request that constructed it.     *)
(* The tasks are coroutines on one event loop: a task runs without         *)
(* interruption from one await to the next.                                *)

NoTime == -1

Progresses == {50}

InitWeb ==
    /\ ExecIdle
    /\ RelIdle
    /\ ClsIdle
    /\ EaIdle
    /\ jobs = [k \in {} |-> {}]
    /\ tasks = <<>>
    /\ now = 0

WebOthersUnchanged ==
    /\ UNCHANGED execVars
    /\ UNCHANGED relVars
    /\ UNCHANGED clsVars
    /\ UNCHANGED eaVars

\* job_id = f"{kind}_{datetime.now().strftime('%Y%m%d_%H%M%S')}"
JobId(kind) == [kind |-> kind, at |-> now]

\* jobs[job_id] = JobStatus(status="pending", progress=0, ...); the task is
\* added to the background tasks.
Accept(kind) ==
    /\ Len(tasks) < MaxRequests
    /\ jobs' = [id \in (DOMAIN jobs) \cup {JobId(kind)} |->
                  IF id = JobId(kind)
                  THEN [status |-> "pending", progress |-> 0,
                        completed_at |-> NoTime, request |-> Len(tasks) + 1]
                  ELSE jobs[id]]
    /\ tasks' = Append(tasks, [job_id |-> JobId(kind), pc |-> "queued"])
    /\ UNCHANGED now
    /\ WebOthersUnchanged

\* POST /api/aws-import
aws_import == Accept("aws")

\* POST /api/property-import
property_import == Accept("prop")

\* A second passes on the wall clock.
Tick ==
    /\ now < MaxTime
    /\ now' = now + 1
    /\ UNCHANGED <<jobs, tasks>>
    /\ WebOthersUnchanged

\* Task r moves to position pc, the JobStatus now at its job_id being
\* replaced by job.
TaskStep(r, pc_, job) ==
    /\ jobs' = [jobs EXCEPT ![tasks[r].job_id] = job]
    /\ tasks' = [tasks EXCEPT ![r].pc = pc_]
    /\ UNCHANGED now
    /\ WebOthersUnchanged

JobOf(r) == jobs[tasks[r].job_id]

\* The task starts: status = "running", the command is built and the
\* subprocess is awaited.
TaskStart ==
    \E r \in DOMAIN tasks :
        /\ tasks[r].pc = "queued"
        /\ TaskStep(r, "spawning", [JobOf(r) EXCEPT !.status = "running"])

\* Building the command raises (a key missing from the options): except
\* sets status = "failed", finally sets completed_at.
BuildCommandRaises ==
    \E r \in DOMAIN tasks :
        /\ tasks[r].pc = "queued"
        /\ TaskStep(r, "ended",
                    [JobOf(r) EXCEPT !.status = "failed", !.completed_at = now])

\* create_subprocess_exec raises.
SpawnRaises ==
    \E r \in DOMAIN tasks :
        /\ tasks[r].pc = "spawning"
        /\ TaskStep(r, "ended",
                    [JobOf(r) EXCEPT !.status = "failed", !.completed_at = now])

\* The subprocess runs; the task awaits its first line.
Spawned ==
    \E r \in DOMAIN tasks :
        /\ tasks[r].pc = "spawning"
        /\ TaskStep(r, "reading", JobOf(r))

\* A "Progress:" line is read.
ReadProgress ==
    \E r \in DOMAIN tasks, progress \in Progresses :
        /\ tasks[r].pc = "reading"
        /\ TaskStep(r, "reading", [JobOf(r) EXCEPT !.progress = progress])

\* End of output: the task awaits process.wait().
ReadEof ==
    \E r \in DOMAIN tasks :
        /\ tasks[r].pc = "reading"
        /\ TaskStep(r, "waiting", JobOf(r))

\* returncode == 0: completed, progress 100, reports listed; finally.
ExitZero ==
    \E r \in DOMAIN tasks :
        /\ tasks[r].pc = "waiting"
        /\ TaskStep(r, "ended",
                    [JobOf(r) EXCEPT !.status = "completed", !.progress = 100,
                                     !.completed_at = now])

\* returncode == 0 and listing the reports raises (file.stat()): the status
\* set to "completed" is replaced by "failed" in except; finally.
ReportScanRaises ==
    \E r \in DOMAIN tasks :
        /\ tasks[r].pc = "waiting"
        /\ TaskStep(r, "ended",
                    [JobOf(r) EXCEPT !.status = "failed", !.progress = 100,
                                     !.completed_at = now])

\* returncode != 0: failed; finally.
ExitNonZero ==
    \E r \in DOMAIN tasks :
        /\ tasks[r].pc = "waiting"
        /\ TaskStep(r, "ended",
                    [JobOf(r) EXCEPT !.status = "failed", !.completed_at = now])

NextWeb ==
    \/ aws_import
    \/ property_import
    \/ Tick
    \/ TaskStart
    \/ BuildCommandRaises
    \/ SpawnRaises
    \/ Spawned
    \/ ReadProgress
    \/ ReadEof
    \/ ExitZero
    \/ ReportScanRaises
    \/ ExitNonZero

SpecWeb == InitWeb /\ [][NextWeb]_vars

----------------------------------------------------------------------------
\* C29: for every job in the table, once the task of its request has ended
\* the status is completed or failed; completed_at is set exactly when that
\* task has ended; progress is 100 whenever the status is completed.
C29_JobLifecycle ==
    \A id \in DOMAIN jobs :
        LET ended == tasks[jobs[id].request].pc = "ended"
        IN  /\ ended => jobs[id].status \in {"completed", "failed"}
            /\ (jobs[id].completed_at # NoTime) <=> ended
            /\ jobs[id].status = "completed" => jobs[id].progress = 100

\* C30: the accepted requests have pairwise distinct job_ids, so the
\* JobStatus a task updates is the one constructed for its own request.
C30_JobsNotShared ==
    /\ \A r1, r2 \in DOMAIN tasks :
          r1 # r2 => tasks[r1].job_id # tasks[r2].job_id
    /\ \A r \in DOMAIN tasks : JobOf(r).request = r

============================================================================
